---- MODULE Spec2Model ----
(***************************************************************************)
(* State machine of the hook useERC721MultiTransfer                        *)
(* (src/hooks/useERC721MultiTransfer.ts): the React state of the hook, its *)
(* three refs, the wagmi write-contract observer it reads, the two timers  *)
(* it arms and the receipt watches it starts.                              *)
(*                                                                         *)
(* Execution model.  A handler or an effect runs to completion; state      *)
(* setters and the synchronous signer store are visible to the next step.  *)
(* An effect runs when one of its dependencies changed since it last ran   *)
(* (React compares the dependency array), and effects run before any other *)
(* event is handled: handlers, signer callbacks, receipt callbacks and     *)
(* timers are taken only in states where no effect is due (Quiescent).     *)
(* A timer callback keeps the closure of the render that armed it.         *)
(***************************************************************************)
EXTENDS Integers, Sequences, FiniteSets

\* ---------------------------------------------------------------- bounds
MaxLen == 2        \* longest tokenIds list passed to startTransfer
MaxRuns == 2       \* startTransfer calls (with a non-empty list) in one behaviour
MaxReq == 4        \* signer requests issued in one behaviour

\* ------------------------------------------------------------- constants
NoIndex == -1      \* lastExecutedIndexRef initial value
NoHash == 0        \* currentHash === undefined
EmptyHash == -1    \* the literal "0x" written by skip()
NoToken == 0       \* queue[i] === undefined (i out of range)

\* skip() is no longer followed once the cursor is this far
MaxCursor == MaxLen + 1

VARIABLES
    queue, currentIndex, isTransferring, completedTransfers, transferParams,
    processedHashes, lastExecutedIndex, isExecuting,
    publicClient,
    currentHash, isPending, writeError, observed,
    calls,
    watches,
    advanceTimer, retryTimers,
    autoDeps, nextDeps,
    epoch, runs, retryAt, watchLog, startedIdle
\* calls: every writeContract call so far, with the hook's state when it was
\*   made; watches: running waitForTransactionReceipt calls per hash.
\* epoch counts startTransfer/reset, runs counts startTransfer; retryAt lists
\*   the cursor of each retry() of the current run; watchLog lists every
\*   waitForTransactionReceipt call; startedIdle tells whether the current
\*   run was started from the state reset() leaves.  These five record
\*   history only: no guard of the hook reads them.

reactState == <<queue, currentIndex, isTransferring, completedTransfers, transferParams>>
refs == <<processedHashes, lastExecutedIndex, isExecuting>>
signer == <<currentHash, isPending, writeError, observed>>
timers == <<advanceTimer, retryTimers>>
deps == <<autoDeps, nextDeps>>
vars == <<reactState, refs, publicClient, signer, calls, watches, timers, deps,
          epoch, runs, retryAt, watchLog, startedIdle>>

\* ------------------------------------------------------------ data model
\* transferParams: null, or the object built by the gen-th call of
\* startTransfer from its contractAddress, to and from
NullParams == [set |-> FALSE, gen |-> 0]

\* tokenIds argument of startTransfer: the n token ids 1, ..., n
TokenIds(n) == [i \in 1..n |-> i]

\* queue[i] with JavaScript's out-of-range read
At(q, i) == IF i >= 0 /\ i < Len(q) THEN q[i + 1] ELSE NoToken

TransferResult(tokenId, hash, status) ==
    [tokenId |-> tokenId, hash |-> hash, status |-> status]

\* ---------------------------------------------------------- derived views
totalCount == Len(queue)

currentTokenId == At(queue, currentIndex)

\* (a variant that waits for the cursor to pass the end)
allTransfersSubmittedPast == currentIndex > totalCount /\ totalCount > 0

allTransfersSubmitted == currentIndex >= totalCount /\ totalCount > 0

allTransfersConfirmed ==
    /\ Len(completedTransfers) = totalCount
    /\ totalCount > 0
    /\ \A i \in 1..Len(completedTransfers) :
          completedTransfers[i].status \in {"success", "failed"}

isComplete == allTransfersConfirmed

pendingConfirmations ==
    Cardinality({i \in 1..Len(completedTransfers) :
                    completedTransfers[i].status = "pending"})

isConfirming == pendingConfirmations > 0

\* ------------------------------------------------------ the signer (wagmi)
\* writeContract(...): a new request replaces the observed one; the observer
\* shows it as pending with neither data nor error.
WriteContract(tp, tokenId, idx) ==
    /\ calls' = Append(calls,
          [tokenId |-> tokenId, pos |-> idx, cep |-> tp.gen,
           ep |-> epoch, cur |-> currentIndex, unit |-> At(queue, currentIndex),
           nrec |-> Len(completedTransfers),
           rt |-> Len(retryAt), run |-> isTransferring, busy |-> isPending, st |-> "out"])
    /\ observed' = Len(calls) + 1
    /\ isPending' = TRUE
    /\ currentHash' = NoHash
    /\ writeError' = FALSE

\* resetWrite(): the observer lets go of its request and shows the idle state
ResetWrite ==
    /\ observed' = 0
    /\ isPending' = FALSE
    /\ currentHash' = NoHash
    /\ writeError' = FALSE

\* ------------------------------------------------- dependency arrays
\* transferParams and queue are compared by identity: every startTransfer and
\* reset installs new objects, told apart here by the epoch that set them.
\* executeCurrentTransfer changes identity with transferParams, currentIndex
\* or queue.
AutoDeps ==
    <<transferParams, isTransferring, currentIndex, Len(queue), currentHash,
      isPending, epoch>>

NextDeps ==
    <<isTransferring, currentIndex, Len(queue), currentHash, isPending,
      transferParams, epoch>>

\* -------------------------------------------------------------- the hook
\* executeCurrentTransfer of the render whose transferParams, currentIndex and
\* queue were tp, idx and q; the refs are read when it is called.
\* (a variant without the two ref guards)
WouldExecuteUnguarded(tp, idx, q) ==
    /\ tp.set
    /\ idx < Len(q)

WouldExecute(tp, idx, q) ==
    /\ tp.set
    /\ idx < Len(q)
    /\ lastExecutedIndex # idx
    /\ ~isExecuting

executeCurrentTransfer(tp, idx, q) ==
    IF WouldExecute(tp, idx, q)
    THEN /\ Len(calls) < MaxReq
         /\ lastExecutedIndex' = idx
         /\ isExecuting' = TRUE
         /\ WriteContract(tp, At(q, idx), idx)
    ELSE UNCHANGED <<lastExecutedIndex, isExecuting, signer, calls>>

\* effect "auto-execute first transfer": due when its dependencies changed
AutoExecuteDue == AutoDeps # autoDeps

AutoExecuteFirst ==
    /\ AutoExecuteDue
    /\ autoDeps' = AutoDeps
    /\ IF /\ transferParams.set /\ isTransferring /\ currentIndex = 0
          /\ Len(queue) > 0 /\ currentHash = NoHash /\ ~isPending
       THEN executeCurrentTransfer(transferParams, currentIndex, queue)
       ELSE UNCHANGED <<lastExecutedIndex, isExecuting, signer, calls>>
    /\ UNCHANGED <<reactState, processedHashes, publicClient, watches, timers,
                   nextDeps, epoch, runs, retryAt, watchLog, startedIdle>>

\* (a variant that leaves the cursor where it is)
nextIndexSame == currentIndex

\* const nextIndex = currentIndex + 1, in the hash effect and in skip()
nextIndex == currentIndex + 1

\* the record appended for the hash just received
PendingRecord == TransferResult(At(queue, currentIndex), currentHash, "pending")

\* effect "hash received": acts only on an unprocessed hash; it is due
\* whenever it would act (its guard reads nothing but its dependencies and
\* processedHashesRef, which only startTransfer and reset empty).
HashReceivedDue ==
    /\ currentHash # NoHash
    /\ isTransferring
    /\ currentIndex < Len(queue)
    /\ currentHash \notin processedHashes

HashReceived ==
    /\ ~AutoExecuteDue
    /\ HashReceivedDue
    /\ processedHashes' = processedHashes \cup {currentHash}
    /\ isExecuting' = FALSE
    /\ completedTransfers' = Append(completedTransfers, PendingRecord)
    /\ watches' = IF publicClient
                  THEN [watches EXCEPT ![currentHash] = @ + 1]
                  ELSE watches
    /\ watchLog' = IF publicClient
                   THEN Append(watchLog, [hash |-> currentHash, ep |-> epoch])
                   ELSE watchLog
    /\ currentIndex' = nextIndex
    /\ IF nextIndex < Len(queue)
       THEN ResetWrite
       ELSE UNCHANGED signer
    /\ UNCHANGED <<queue, isTransferring, transferParams, lastExecutedIndex,
                   publicClient, calls, timers, deps, epoch, runs, retryAt, startedIdle>>

\* effect "execute next transfer": its cleanup clears the 50 ms timer of the
\* previous run, then the timer is armed again if the guards pass.
ExecuteNextDue == NextDeps # nextDeps

\* (a variant that also waits for the receipt of the previous position)
ShouldArmAfterReceipt ==
    /\ isTransferring /\ currentIndex # 0 /\ currentIndex < Len(queue)
    /\ currentHash = NoHash /\ ~isPending
    /\ lastExecutedIndex # currentIndex
    /\ currentIndex <= Len(completedTransfers)
    /\ completedTransfers[currentIndex].status # "pending"

ShouldArm ==
    /\ isTransferring /\ currentIndex # 0 /\ currentIndex < Len(queue)
    /\ currentHash = NoHash /\ ~isPending
    /\ lastExecutedIndex # currentIndex

ExecuteNext ==
    /\ ~AutoExecuteDue /\ ~HashReceivedDue
    /\ ExecuteNextDue
    /\ nextDeps' = NextDeps
    /\ advanceTimer' = ShouldArm
    /\ UNCHANGED <<reactState, refs, publicClient, signer, calls, watches,
                   retryTimers, autoDeps, epoch, runs, retryAt, watchLog, startedIdle>>

\* (a variant that ends the batch once every position is submitted)
CheckDoneDueSubmitted == allTransfersSubmitted /\ isTransferring

\* effect "check if we're done"
CheckDoneDue == allTransfersConfirmed /\ isTransferring

CheckDone ==
    /\ ~AutoExecuteDue /\ ~HashReceivedDue /\ ~ExecuteNextDue
    /\ CheckDoneDue
    /\ isTransferring' = FALSE
    /\ UNCHANGED <<queue, currentIndex, completedTransfers, transferParams, refs,
                   publicClient, signer, calls, watches, timers, deps, epoch,
                   runs, retryAt, watchLog, startedIdle>>

\* no effect is due: the next event is handled
Quiescent ==
    ~AutoExecuteDue /\ ~HashReceivedDue /\ ~ExecuteNextDue /\ ~CheckDoneDue

\* the 50 ms timer: cleared whenever a dependency changes, so its closure is
\* the current render
AdvanceTimerFires ==
    /\ Quiescent
    /\ advanceTimer
    /\ advanceTimer' = FALSE
    /\ executeCurrentTransfer(transferParams, currentIndex, queue)
    /\ UNCHANGED <<reactState, processedHashes, publicClient, watches,
                   retryTimers, deps, epoch, runs, retryAt, watchLog, startedIdle>>

\* the 100 ms timer of retry(): never cleared; it calls the
\* executeCurrentTransfer of the render in which retry() was called
RetryTimerFires(t) ==
    /\ Quiescent
    /\ t \in retryTimers
    /\ retryTimers' = retryTimers \ {t}
    /\ executeCurrentTransfer(t.tp, t.idx, t.q)
    /\ UNCHANGED <<reactState, processedHashes, publicClient, watches,
                   advanceTimer, deps, epoch, runs, retryAt, watchLog, startedIdle>>

\* everything reset() writes already has the value reset() gives it
Idle ==
    /\ queue = <<>> /\ currentIndex = 0 /\ ~isTransferring
    /\ completedTransfers = <<>> /\ ~transferParams.set
    /\ processedHashes = {} /\ lastExecutedIndex = NoIndex /\ ~isExecuting
    /\ currentHash = NoHash /\ ~isPending /\ ~writeError /\ observed = 0

\* (a variant that accepts every list)
EmptyListAccepted(tokenIds) == FALSE

\* params.tokenIds.length === 0
EmptyList(tokenIds) == Len(tokenIds) = 0

startTransfer(tokenIds) ==
    /\ Quiescent
    /\ IF EmptyList(tokenIds)
       THEN UNCHANGED vars
       ELSE /\ runs < MaxRuns
            /\ Len(calls) + Len(tokenIds) <= MaxReq
            /\ processedHashes' = {}
            /\ lastExecutedIndex' = NoIndex
            /\ isExecuting' = FALSE
            /\ queue' = tokenIds
            /\ currentIndex' = 0
            /\ isTransferring' = TRUE
            /\ completedTransfers' = <<>>
            /\ transferParams' = [set |-> TRUE, gen |-> runs + 1]
            /\ runs' = runs + 1
            /\ epoch' = epoch + 1
            /\ retryAt' = <<>>
            /\ startedIdle' = Idle
            /\ UNCHANGED <<publicClient, signer, calls, watches, timers, deps,
                           watchLog>>

\* (a variant that reads the unit after the one at the cursor)
FailedRecordNextUnit ==
    TransferResult(At(queue, currentIndex + 1), EmptyHash, "failed")

\* the record skip() appends for the position it gives up
FailedRecord == TransferResult(At(queue, currentIndex), EmptyHash, "failed")

skip ==
    /\ Quiescent
    /\ IF ~isTransferring \/ ~writeError
       THEN UNCHANGED vars
       ELSE /\ currentIndex < MaxCursor
            /\ completedTransfers' = Append(completedTransfers, FailedRecord)
            /\ isExecuting' = FALSE
            /\ lastExecutedIndex' = NoIndex
            /\ currentIndex' = nextIndex
            /\ IF nextIndex < Len(queue)
               THEN ResetWrite
               ELSE UNCHANGED signer
            /\ UNCHANGED <<queue, isTransferring, transferParams, processedHashes,
                           publicClient, calls, watches, timers, deps, epoch,
                           runs, retryAt, watchLog, startedIdle>>

retry ==
    /\ Quiescent
    /\ IF ~isTransferring \/ ~writeError
       THEN UNCHANGED vars
       ELSE /\ ResetWrite
            /\ isExecuting' = FALSE
            /\ lastExecutedIndex' = NoIndex
            /\ retryTimers' = retryTimers \cup
                  {[tp |-> transferParams, idx |-> currentIndex, q |-> queue,
                    ep |-> epoch, n |-> Len(retryAt) + 1]}
            /\ retryAt' = Append(retryAt, currentIndex)
            /\ UNCHANGED <<reactState, processedHashes, publicClient, calls,
                           watches, advanceTimer, deps, epoch, runs, watchLog, startedIdle>>

reset ==
    /\ Quiescent
    /\ IF Idle
       THEN UNCHANGED vars
       ELSE /\ queue' = <<>>
            /\ currentIndex' = 0
            /\ isTransferring' = FALSE
            /\ completedTransfers' = <<>>
            /\ transferParams' = NullParams
            /\ processedHashes' = {}
            /\ lastExecutedIndex' = NoIndex
            /\ isExecuting' = FALSE
            /\ ResetWrite
            /\ epoch' = epoch + 1
            /\ retryAt' = <<>>
            /\ startedIdle' = FALSE
            /\ UNCHANGED <<publicClient, calls, watches, timers, deps, runs,
                           watchLog>>

\* ------------------------------------------------------- the environment
\* the wallet answers request r; the observer shows the answer only if r is
\* still the request it is attached to
SignerYieldsHash(r) ==
    /\ Quiescent
    /\ r \in 1..Len(calls)
    /\ calls[r].st = "out"
    /\ calls' = [calls EXCEPT ![r].st = "settled"]
    /\ IF observed = r
       THEN /\ currentHash' = r
            /\ isPending' = FALSE
            /\ UNCHANGED <<writeError, observed>>
       ELSE UNCHANGED signer
    /\ UNCHANGED <<reactState, refs, publicClient, watches, timers, deps, epoch,
                   runs, retryAt, watchLog, startedIdle>>

SignerYieldsError(r) ==
    /\ Quiescent
    /\ r \in 1..Len(calls)
    /\ calls[r].st = "out"
    /\ calls' = [calls EXCEPT ![r].st = "settled"]
    /\ IF observed = r
       THEN /\ writeError' = TRUE
            /\ isPending' = FALSE
            /\ UNCHANGED <<currentHash, observed>>
       ELSE UNCHANGED signer
    /\ UNCHANGED <<reactState, refs, publicClient, watches, timers, deps, epoch,
                   runs, retryAt, watchLog, startedIdle>>

\* (a variant whose update is not keyed by the handle)
SetStatusOfAll(records, h, status) ==
    [i \in 1..Len(records) |-> [records[i] EXCEPT !.status = status]]

\* waitForTransactionReceipt({hash: h}) settles: then (ok) or catch (~ok)
SetStatus(records, h, status) ==
    [i \in 1..Len(records) |->
        IF records[i].hash = h
        THEN [records[i] EXCEPT !.status = status]
        ELSE records[i]]

WatchSettles(h, ok) ==
    /\ Quiescent
    /\ h \in DOMAIN watches
    /\ watches[h] > 0
    /\ watches' = [watches EXCEPT ![h] = @ - 1]
    /\ completedTransfers' =
          SetStatus(completedTransfers, h, IF ok THEN "success" ELSE "failed")
    /\ UNCHANGED <<queue, currentIndex, isTransferring, transferParams, refs,
                   publicClient, signer, calls, timers, deps, epoch, runs, retryAt, watchLog, startedIdle>>

\* ------------------------------------------------------- specification
Init ==
    /\ queue = <<>>
    /\ currentIndex = 0
    /\ isTransferring = FALSE
    /\ completedTransfers = <<>>
    /\ transferParams = NullParams
    /\ processedHashes = {}
    /\ lastExecutedIndex = NoIndex
    /\ isExecuting = FALSE
    /\ publicClient \in BOOLEAN
    /\ currentHash = NoHash
    /\ isPending = FALSE
    /\ writeError = FALSE
    /\ observed = 0
    /\ calls = <<>>
    /\ watches = [h \in 1..MaxReq |-> 0]
    /\ advanceTimer = FALSE
    /\ retryTimers = {}
    /\ autoDeps = <<NullParams, FALSE, 0, 0, NoHash, FALSE, 0>>
    /\ nextDeps = <<FALSE, 0, 0, NoHash, FALSE, NullParams, 0>>
    /\ epoch = 0
    /\ runs = 0
    /\ retryAt = <<>>
    /\ watchLog = <<>>
    /\ startedIdle = FALSE

Next ==
    \/ AutoExecuteFirst
    \/ HashReceived
    \/ ExecuteNext
    \/ CheckDone
    \/ AdvanceTimerFires
    \/ \E t \in retryTimers : RetryTimerFires(t)
    \/ \E n \in 0..MaxLen : startTransfer(TokenIds(n))
    \/ skip
    \/ retry
    \/ reset
    \/ \E r \in 1..Len(calls) : SignerYieldsHash(r)
    \/ \E r \in 1..Len(calls) : SignerYieldsError(r)
    \/ \E h \in 1..MaxReq, ok \in BOOLEAN : WatchSettles(h, ok)

Spec == Init /\ [][Next]_vars

\* Runs in which every signer request the hook waits for yields a handle: no
\* signer error, hence no skip() or retry(), and no reset().  Effects and
\* timers run, and the wallet answers the observed request; nothing is assumed
\* about the receipt watches.
NextSubmit ==
    \/ AutoExecuteFirst
    \/ HashReceived
    \/ ExecuteNext
    \/ CheckDone
    \/ AdvanceTimerFires
    \/ \E n \in 0..MaxLen : startTransfer(TokenIds(n))
    \/ \E r \in 1..Len(calls) : SignerYieldsHash(r)
    \/ \E h \in 1..MaxReq, ok \in BOOLEAN : WatchSettles(h, ok)

SpecSubmit ==
    /\ Init
    /\ [][NextSubmit]_vars
    /\ WF_vars(AutoExecuteFirst)
    /\ WF_vars(HashReceived)
    /\ WF_vars(ExecuteNext)
    /\ WF_vars(AdvanceTimerFires)
    /\ WF_vars(\E r \in 1..Len(calls) : SignerYieldsHash(r))

\* retry(), as long as the request budget still covers the retried position
\* and the positions after it
retryWithinBudget ==
    /\ Len(calls) + (Len(queue) - currentIndex) <= MaxReq
    /\ retry

\* Runs without reset() in which the wallet answers every request with a
\* handle or an error, the user answers every signer error with skip() or
\* retry(), and every receipt watch settles.
NextLive ==
    \/ AutoExecuteFirst
    \/ HashReceived
    \/ ExecuteNext
    \/ CheckDone
    \/ AdvanceTimerFires
    \/ \E t \in retryTimers : RetryTimerFires(t)
    \/ \E n \in 0..MaxLen : startTransfer(TokenIds(n))
    \/ skip
    \/ retryWithinBudget
    \/ \E r \in 1..Len(calls) : SignerYieldsHash(r)
    \/ \E r \in 1..Len(calls) : SignerYieldsError(r)
    \/ \E h \in 1..MaxReq, ok \in BOOLEAN : WatchSettles(h, ok)

SpecLive ==
    /\ Init
    /\ [][NextLive]_vars
    /\ WF_vars(AutoExecuteFirst)
    /\ WF_vars(HashReceived)
    /\ WF_vars(ExecuteNext)
    /\ WF_vars(CheckDone)
    /\ WF_vars(AdvanceTimerFires)
    /\ WF_vars(\E t \in retryTimers : RetryTimerFires(t))
    /\ WF_vars(\E r \in 1..Len(calls) : SignerYieldsHash(r) \/ SignerYieldsError(r))
    /\ WF_vars(skip \/ retryWithinBudget)
    /\ \A h \in 1..MaxReq : WF_vars(\E ok \in BOOLEAN : WatchSettles(h, ok))

\* startTransfer on a hook that is in its initial or reset state
startFresh(tokenIds) == Idle /\ startTransfer(tokenIds)

\* skip() of a position of the queue
skipPosition == currentIndex < Len(queue) /\ skip

\* One batch on a fresh hook in which the wallet answers every request, every
\* signer error is answered by skip() of that position and every receipt
\* watch settles.
NextSkip ==
    \/ AutoExecuteFirst
    \/ HashReceived
    \/ ExecuteNext
    \/ CheckDone
    \/ AdvanceTimerFires
    \/ \E n \in 0..MaxLen : startFresh(TokenIds(n))
    \/ skipPosition
    \/ \E r \in 1..Len(calls) : SignerYieldsHash(r)
    \/ \E r \in 1..Len(calls) : SignerYieldsError(r)
    \/ \E h \in 1..MaxReq, ok \in BOOLEAN : WatchSettles(h, ok)

SpecSkip ==
    /\ Init
    /\ [][NextSkip]_vars
    /\ WF_vars(AutoExecuteFirst)
    /\ WF_vars(HashReceived)
    /\ WF_vars(ExecuteNext)
    /\ WF_vars(CheckDone)
    /\ WF_vars(AdvanceTimerFires)
    /\ WF_vars(\E r \in 1..Len(calls) : SignerYieldsHash(r) \/ SignerYieldsError(r))
    /\ WF_vars(skipPosition)
    /\ \A h \in 1..MaxReq : WF_vars(\E ok \in BOOLEAN : WatchSettles(h, ok))

\* ================================================================ claims
\* signer invocations of the current run, in the order they were issued
ThisRun == {r \in 1..Len(calls) : calls[r].ep = epoch}

\* invocation r asked for the unit that was at the cursor when it was issued
AtCursor(r) == calls[r].pos = calls[r].cur /\ calls[r].tokenId = calls[r].unit

\* C1: within one run the signer is invoked only for the unit at the cursor,
\* the positions of successive invocations never decrease, and a position is
\* invoked a second time only after a retry() for it.
C1_OnePerPosition ==
    /\ \A r \in 1..Len(calls) : calls[r].run => AtCursor(r)
    /\ \A r1, r2 \in 1..Len(calls) :
          (r1 < r2 /\ calls[r1].ep = calls[r2].ep /\ calls[r1].run /\ calls[r2].run) =>
             /\ calls[r1].pos <= calls[r2].pos
             /\ (calls[r1].pos = calls[r2].pos => calls[r1].rt < calls[r2].rt)

\* signer requests the wallet has answered with neither a handle nor an error
Outstanding == {r \in 1..Len(calls) : calls[r].st = "out"}

\* C2: submissions never overlap: at most one signer request is outstanding.
C2_NoOverlap == Cardinality(Outstanding) <= 1

\* C2, as the hook itself sees it: the signer is never invoked while the
\* observer still shows the previous request as pending.
C2_NoInvokeWhilePending == \A r \in 1..Len(calls) : ~calls[r].busy

\* C3: every position before the cursor has its record, at its own index and
\* with the unit of that position, and outside startTransfer and reset the
\* records are only appended to: no record is removed and no record's tokenId
\* or hash changes.
C3_RecordsFollowQueue ==
    /\ [](\A i \in 0..(currentIndex - 1) :
             /\ i < Len(completedTransfers)
             /\ completedTransfers[i + 1].tokenId = At(queue, i))
    /\ [][epoch' = epoch =>
             /\ Len(completedTransfers') >= Len(completedTransfers)
             /\ \A i \in 1..Len(completedTransfers) :
                   /\ completedTransfers'[i].tokenId = completedTransfers[i].tokenId
                   /\ completedTransfers'[i].hash = completedTransfers[i].hash]_vars

\* a skipped position followed by a submitted one whose watch has settled
C3_Witness ==
    /\ currentIndex = 2
    /\ Len(completedTransfers) = 2
    /\ completedTransfers[1].hash = EmptyHash
    /\ completedTransfers[2].hash # EmptyHash
    /\ completedTransfers[2].status = "success"

\* C4: the cursor stays within the queue: 0 <= currentIndex <= queue.length.
C4_CursorInRange == currentIndex >= 0 /\ currentIndex <= Len(queue)

\* C5: a record that carries a handle pairs a unit with the handle of a signer
\* request issued for that unit after the startTransfer that began the run.
C5_HandleOfOwnRequest ==
    \A i \in 1..Len(completedTransfers) :
       completedTransfers[i].hash # EmptyHash =>
          /\ calls[completedTransfers[i].hash].tokenId = completedTransfers[i].tokenId
          /\ calls[completedTransfers[i].hash].ep = epoch

\* every position submitted, one record per position in queue order
Submitted ==
    /\ currentIndex = Len(queue)
    /\ Len(completedTransfers) = Len(queue)
    /\ \A i \in 1..Len(queue) : completedTransfers[i].tokenId = queue[i]

\* C6: when every signer request yields a handle, a started batch reaches
\* currentIndex = N with N records in queue order, whether or not any receipt
\* watch ever settles (SpecSubmit assumes nothing about WatchSettles).
C6_AllSubmitted == [](isTransferring => <>Submitted)

\* both positions submitted while both receipts are still pending
C6_Witness ==
    /\ Len(queue) = 2
    /\ Submitted
    /\ \A i \in 1..2 : /\ completedTransfers[i].status = "pending"
                       /\ completedTransfers[i].hash # EmptyHash

\* C7: a position closed by skip() (a failed record with the empty handle) is
\* never handed to the signer again by the same run: no request of this run
\* for position i was issued when the record of position i already existed.
C7_SkippedNotResubmitted ==
    \A r \in ThisRun :
        (/\ calls[r].run
         /\ calls[r].pos < Len(completedTransfers)
         /\ completedTransfers[calls[r].pos + 1].hash = EmptyHash)
            => calls[r].nrec <= calls[r].pos

\* requests of this run issued for position i after the k-th retry() of the
\* run and before the next one
RetriedRequests(k) ==
    {r \in ThisRun : /\ calls[r].rt = k
                     /\ calls[r].pos = retryAt[k]
                     /\ calls[r].tokenId = At(queue, retryAt[k])}

RetryTimerLeft(k) == \E t \in retryTimers : t.ep = epoch /\ t.n = k

\* C8: every retry() of the run at a position that exists leads to exactly one
\* further request for the unit at that position: never two, and one as soon
\* as the delay it armed has elapsed.
C8_RetryResubmitsOnce ==
    \A k \in 1..Len(retryAt) :
        retryAt[k] < Len(queue) =>
            /\ Cardinality(RetriedRequests(k)) <= 1
            /\ (~RetryTimerLeft(k) /\ isTransferring)
                    => Cardinality(RetriedRequests(k)) = 1

\* receipt watches started for handle h, in any run
WatchesStarted(h) == {k \in 1..Len(watchLog) : watchLog[k].hash = h}

RecordsOf(h) == {i \in 1..Len(completedTransfers) : completedTransfers[i].hash = h}

\* C9: every handle the run has processed has exactly one record and exactly
\* one receipt watch; a handle seen again after the cursor moved adds neither.
C9_OneWatchPerHandle ==
    \A h \in processedHashes :
        /\ Cardinality(RecordsOf(h)) = 1
        /\ Cardinality(WatchesStarted(h)) = 1

\* the watch of handle h settles with the given status: the records of h take
\* that status and nothing else changes in records, queue, cursor or guards
SettleFrame(h, status) ==
    /\ Len(completedTransfers') = Len(completedTransfers)
    /\ \A i \in 1..Len(completedTransfers) :
          IF completedTransfers[i].hash = h
          THEN completedTransfers'[i] =
                  TransferResult(completedTransfers[i].tokenId, h, status)
          ELSE completedTransfers'[i] = completedTransfers[i]
    /\ UNCHANGED <<queue, currentIndex, refs>>

\* C10: a settling receipt watch of handle h changes only the status of the
\* records whose handle is h (success when it resolved, failed when it
\* rejected); other records, queue, currentIndex and the guards keep their
\* values, in whatever order the watches settle.
C10_SettleIsKeyed ==
    [][\A h \in 1..MaxReq :
          /\ WatchSettles(h, TRUE) => SettleFrame(h, "success")
          /\ WatchSettles(h, FALSE) => SettleFrame(h, "failed")]_vars

\* the watch of the second position has settled while the watch of the
\* first position is still running
C10_Witness ==
    /\ Len(completedTransfers) = 2
    /\ completedTransfers[1].hash # EmptyHash
    /\ completedTransfers[2].hash # EmptyHash
    /\ completedTransfers[1].hash # completedTransfers[2].hash
    /\ completedTransfers[1].status = "pending"
    /\ completedTransfers[2].status = "failed"
    /\ watches[completedTransfers[1].hash] > 0
    /\ watches[completedTransfers[2].hash] = 0

\* C11: within a run a record's status changes at most once, and only from
\* pending to success or to failed: a record that is success or failed (a
\* skip() record included) keeps its status in every step other than
\* startTransfer and reset.
C11_StatusChangesOnce ==
    [][epoch' = epoch =>
          \A i \in 1..Len(completedTransfers) :
              /\ i <= Len(completedTransfers')
              /\ completedTransfers'[i].status # completedTransfers[i].status =>
                    /\ completedTransfers[i].status = "pending"
                    /\ completedTransfers'[i].status \in {"success", "failed"}]_vars

\* C12: a run started from the state reset() leaves carries nothing of an
\* earlier run: every signer request of the run was issued with the run's own
\* transferParams for the unit of its position in the run's queue, and every
\* record with a handle holds the unit of its position and the handle of a
\* request of this run.
C12_NoResidue ==
    startedIdle =>
        /\ \A r \in ThisRun :
              /\ calls[r].cep = transferParams.gen
              /\ calls[r].tokenId = At(queue, calls[r].pos)
        /\ \A i \in 1..Len(completedTransfers) :
              completedTransfers[i].hash # EmptyHash =>
                 /\ completedTransfers[i].tokenId = At(queue, i - 1)
                 /\ calls[completedTransfers[i].hash].ep = epoch

\* C13: from reset() until the next startTransfer (transferParams is null)
\* the queue and the records are empty, the cursor is 0, no batch is active,
\* the guards and the signer are as reset() left them, and the signer has not
\* been invoked since, whatever callbacks and timers fired.
C13_ResetIsQuiet ==
    ~transferParams.set =>
        /\ queue = <<>> /\ currentIndex = 0 /\ completedTransfers = <<>>
        /\ ~isTransferring /\ processedHashes = {}
        /\ ThisRun = {}
        /\ lastExecutedIndex = NoIndex /\ ~isExecuting
        /\ currentHash = NoHash /\ ~isPending /\ ~writeError

\* C14: when the wallet answers every request, every signer error is answered
\* by skip() or retry() and every receipt watch settles, a started batch
\* reaches isComplete.
C14_BatchCompletes == [](isTransferring => <>isComplete)

\* the step is the body of reset()
ResetStep ==
    /\ queue' = <<>> /\ currentIndex' = 0 /\ completedTransfers' = <<>>
    /\ transferParams' = NullParams /\ processedHashes' = {}

\* C15: once allTransfersConfirmed holds in an active batch, nothing happens
\* before isTransferring is set to false (effects that re-run only renew
\* their dependencies and clear the 50 ms timer); and isTransferring falls only in that reaction,
\* which changes nothing else, or in reset().
C15_EndsWhenConfirmed ==
    [][/\ (allTransfersConfirmed /\ isTransferring) =>
             \/ ~isTransferring' /\ UNCHANGED <<queue, currentIndex, completedTransfers>>
             \/ UNCHANGED <<reactState, refs, signer, calls, watches, retryTimers>>
       /\ (isTransferring /\ ~isTransferring') =>
             \/ /\ allTransfersConfirmed
                /\ UNCHANGED <<queue, currentIndex, completedTransfers,
                               transferParams, refs, signer, calls, watches>>
             \/ ResetStep]_vars

\* a batch of two that ended by itself, one position skipped and one confirmed
C15_Witness ==
    /\ ~isTransferring /\ transferParams.set
    /\ Len(queue) = 2 /\ allTransfersConfirmed
    /\ completedTransfers[1].hash # EmptyHash
    /\ completedTransfers[2].hash = EmptyHash

\* the current position has no signer error outstanding: no batch is active,
\* the signer shows no error, or the cursor is past the last position
NoErrorOutstanding ==
    ~isTransferring \/ ~writeError \/ currentIndex >= Len(queue)

\* C16: skip() and retry() called when the current position has no signer
\* error outstanding change nothing: queue, currentIndex, completedTransfers
\* and the guards keep their values, the signer is neither reset nor invoked
\* and no timer is armed.
C16_MisuseIsNoOp ==
    [][(NoErrorOutstanding /\ (skip \/ retry)) =>
          UNCHANGED <<queue, currentIndex, completedTransfers, refs, signer,
                      calls, retryTimers>>]_vars

\* record i is the terminal record of position i - 1: a skip() record, or the
\* handle of the request issued for that position with a settled status
TerminalRecordOf(i) ==
    LET rec == completedTransfers[i] IN
    /\ rec.tokenId = queue[i]
    /\ rec.status \in {"success", "failed"}
    /\ IF rec.hash = EmptyHash
       THEN rec.status = "failed"
       ELSE /\ rec.hash \in 1..Len(calls)
            /\ calls[rec.hash].pos = i - 1
            /\ calls[rec.hash].tokenId = queue[i]
            /\ watches[rec.hash] = 0

ControlStep ==
    skip \/ retry \/ reset \/ \E n \in 0..MaxLen : startTransfer(TokenIds(n))

\* the signer shows the error of the request this run issued for position i
ErrorFor(i) ==
    /\ writeError /\ isTransferring /\ currentIndex = i
    /\ observed \in ThisRun
    /\ calls[observed].pos = i

\* C18: while the signer shows an error for the position at the cursor, every
\* step that is not a call of retry(), skip(), reset() or startTransfer
\* leaves the cursor where it is, appends no record and issues no signer
\* request, however often the effects re-run and whichever timers fire.
C18_ErrorHolds ==
    [][(ErrorFor(currentIndex) /\ ~ControlStep) =>
          /\ currentIndex' = currentIndex
          /\ Len(completedTransfers') = Len(completedTransfers)
          /\ Len(calls') = Len(calls)]_vars

\* the signer rejected the second position and the effects have re-run
C18_Witness ==
    /\ ErrorFor(1) /\ Quiescent
    /\ Len(completedTransfers) = 1
    /\ autoDeps[6] = FALSE /\ nextDeps[5] = FALSE
    /\ lastExecutedIndex = 1

\* C19: the number of records equals the cursor in every reachable state.
C19_RecordsMatchCursor == Len(completedTransfers) = currentIndex

\* one position advanced by its handle (receipt pending), the next by skip()
C19_Witness ==
    /\ isTransferring /\ currentIndex = 2
    /\ completedTransfers[1].hash # EmptyHash
    /\ completedTransfers[1].status = "pending"
    /\ completedTransfers[2].hash = EmptyHash

\* C20: with a non-empty queue, isComplete holds exactly when
\* allTransfersSubmitted holds and no confirmation is pending.
C20_CompleteIffSubmittedAndSettled ==
    totalCount > 0 =>
        (isComplete <=> (allTransfersSubmitted /\ pendingConfirmations = 0))

\* C21: startTransfer with an empty tokenIds list changes nothing, in any
\* state: queue, currentIndex, completedTransfers, transferParams,
\* isTransferring and the three guards keep their values, the signer is not
\* touched and no timer or watch is started; so no batch is ever active with
\* an empty queue.
C21_EmptyStartIsNoOp ==
    /\ [](isTransferring => Len(queue) > 0)
    /\ [][startTransfer(TokenIds(0)) =>
             UNCHANGED <<reactState, refs, signer, calls, watches, timers>>]_vars

\* a batch in progress (second position awaiting signature) in which
\* startTransfer can be called with an empty list
C21_Witness ==
    /\ Quiescent /\ isTransferring /\ isPending
    /\ Len(queue) = 2 /\ currentIndex = 1
    /\ observed \in ThisRun /\ calls[observed].pos = 1

====
